---- MODULE Spec2Model ----
(***************************************************************************)
(* ezbedrock: the Conversation class (src/ezbedrock/conversation.py).      *)
(* A Conversation keeps an active `history` that _manage_context_window    *)
(* compacts when its estimated token usage exceeds max_token_limit, and a  *)
(* `full_history` archive.  The Bedrock client is an external collaborator *)
(* whose two calls (converse inside send, invoke_model inside              *)
(* _create_summary) either return text or raise.                           *)
(*                                                                         *)
(* A turn is the dict {"role", "content"} of add_message; `order` is the   *)
(* identity of the dict object: the number of the add_message call that    *)
(* created it, or 0 for the dict _manage_context_window creates for a      *)
(* summary.  Text is a TLA+ string, so len() is Len and + is \o.           *)
(***************************************************************************)
EXTENDS Integers, Sequences, FiniteSets, TLC

(***************************************************************************)
(* Bounds of the model.                                                    *)
(***************************************************************************)
\* add_message calls made in one behaviour of Spec (two per successful send)
MaxCalls == 14
\* add_message calls made in one behaviour of AddSpec
MaxAdds == 10
\* add_message calls made in one behaviour of BudgetSpec
MaxTurns == 9

(***************************************************************************)
(* Constants of the program.                                               *)
(***************************************************************************)
\* conversation.py:31  len(text) // 4
CharsPerToken == 4
\* conversation.py:48  keep_count = min(6, len(non_system_messages))
KeepCount == 6
\* conversation.py:55  if len(old_messages) >= 4
MinSummarize == 4

\* conversation.py:88
SummaryPrefix == "CONVERSATION SUMMARY (previous messages): "
\* conversation.py:91
FallbackSummary == "Previous messages were summarized but details are not available."

(***************************************************************************)
(* Inputs.                                                                 *)
(***************************************************************************)
Roles == {"user", "assistant", "system"}

\* a 68-character reply in two content items (17 estimated tokens)
LongReply == << "Python, JavaScript and Java are the", " most widely used languages today" >>
ShortReply == << "Yes" >>
\* a response of converse: the texts of response['output']['message']['content']
Responses == {ShortReply, LongReply}
\* the error converse raises (botocore ClientError)
TransportError == "ThrottlingException"
ConverseOutcomes ==
    {[ok |-> FALSE, content |-> <<>>, error |-> TransportError]}
        \cup {[ok |-> TRUE, content |-> r, error |-> ""] : r \in Responses}

\* what client.invoke_model does when _create_summary calls it
NotCalled == [called |-> FALSE, ok |-> FALSE, text |-> "", error |-> ""]
SummaryTexts == {"ok"}
\* the error invoke_model raises
SummaryError == "ModelTimeoutException"
InvokeOutcomes ==
    {[called |-> TRUE, ok |-> FALSE, text |-> "", error |-> SummaryError]}
        \cup {[called |-> TRUE, ok |-> TRUE, text |-> t, error |-> ""] : t \in SummaryTexts}

\* messages passed to send (0 estimated tokens)
UserTexts == {"hi"}
\* contents passed to add_message directly: 20 characters, 5 estimated tokens
AddContents == {"Tell me a short joke"}

\* system_prompt: "" stands for None (both are falsy at conversation.py:111)
SystemPrompts == {"", "Be concise."}
\* max_token_limit of the conversations driven through send
SendLimits == {16, 84}
\* max_token_limit of the conversations driven through add_message
AddLimits == {4, 45}
\* conversation.py:7  max_token_limit: int = 8000, what create_conversation gives
DefaultMaxTokenLimit == 8000
\* max_token_limit of the conversations of BudgetSpec: any int is accepted
BudgetLimits == {-1, 0, 40, DefaultMaxTokenLimit}
\* the roles of an exchange
ExchangeRoles == {"user", "assistant"}

VARIABLES
    history,          \* self.history
    full_history,     \* self.full_history
    system_prompt,    \* self.system_prompt
    max_token_limit,  \* self.max_token_limit
    calls,            \* add_message calls made since construction
    passed,           \* the (role, content) of each add_message call since the last clear_history
    op,               \* the operation that ran last
    result,           \* how it ended: [raised, value]
    outbound,         \* request_body["messages"] of the last send
    converse,         \* what client.client.converse did in the last operation
    runs              \* one record per _manage_context_window run of the last operation

vars == << history, full_history, system_prompt, max_token_limit, calls, passed,
           op, result, outbound, converse, runs >>

(***************************************************************************)
(* Helpers.                                                                *)
(***************************************************************************)
Min(a, b) == IF a <= b THEN a ELSE b

Range(s) == {s[i] : i \in DOMAIN s}

RECURSIVE Concat(_)
\* text_response += content_item['text'] over the content items
Concat(items) ==
    IF items = <<>> THEN "" ELSE Head(items) \o Concat(Tail(items))

IsSystem(msg) == msg.role = "system"
IsNotSystem(msg) == msg.role # "system"

(***************************************************************************)
(* Conversation._estimate_token_count and the usage sum.                   *)
(***************************************************************************)
\* an estimate that rounds up
EstimateTokenCountCeil(text) == (Len(text) + CharsPerToken - 1) \div CharsPerToken

EstimateTokenCount(text) == Len(text) \div CharsPerToken

RECURSIVE Usage(_)
\* sum(self._estimate_token_count(msg["content"]) for msg in self.history)
Usage(h) ==
    IF h = <<>> THEN 0 ELSE EstimateTokenCount(Head(h).content) + Usage(Tail(h))

(***************************************************************************)
(* Conversation._create_summary.                                           *)
(***************************************************************************)
\* msg['role'].upper()
Upper(role) ==
    CASE role = "user" -> "USER"
      [] role = "assistant" -> "ASSISTANT"
      [] role = "system" -> "SYSTEM"

RECURSIVE ConversationText(_)
\* "\n\n".join([f"{msg['role'].upper()}:\n{msg['content']}" for msg in messages])
ConversationText(messages) ==
    IF messages = <<>> THEN ""
    ELSE Upper(Head(messages).role) \o ":\n" \o Head(messages).content
            \o (IF Tail(messages) = <<>> THEN ""
                ELSE "\n\n" \o ConversationText(Tail(messages)))

SummaryPrompt(messages) ==
    "You are tasked with summarizing a conversation history. "
        \o "Create a concise but informative summary that captures the key points, "
        \o "decisions, and important context from this conversation. "
        \o "This summary will replace older messages while maintaining context "
        \o "for the rest of the conversation.\n\n"
        \o "CONVERSATION HISTORY TO SUMMARIZE:\n"
        \o ConversationText(messages)

\* _create_summary without the except branch's text: the wrapped (empty) text
SummaryTextNoFallback(inv) == SummaryPrefix \o inv.text

\* the try/except around client.invoke_model: inv is what the call did
SummaryText(inv) ==
    IF inv.ok THEN SummaryPrefix \o inv.text ELSE FallbackSummary

CreateSummary(messages, inv) ==
    [prompt |-> SummaryPrompt(messages), text |-> SummaryText(inv)]

(***************************************************************************)
(* Conversation._manage_context_window.                                    *)
(***************************************************************************)
SystemMessages(h) == SelectSeq(h, IsSystem)

NonSystemMessages(h) == SelectSeq(h, IsNotSystem)

\* keep_count = min(6, len(non_system_messages))
KeepOf(ns) == Min(KeepCount, Len(ns))

\* a window that keeps every non-system message
RecentMessagesAll(ns) == ns

\* a window that keeps the oldest messages: [:keep_count]
RecentMessagesOldest(ns) ==
    IF KeepOf(ns) = 0 THEN ns ELSE SubSeq(ns, 1, KeepOf(ns))

\* non_system_messages[-keep_count:]   (a Python slice: [-0:] is the whole list)
RecentMessages(ns) ==
    IF KeepOf(ns) = 0 THEN ns ELSE SubSeq(ns, Len(ns) - KeepOf(ns) + 1, Len(ns))

\* non_system_messages[:-keep_count]   (a Python slice: [:-0] is empty)
OldMessages(ns) ==
    IF KeepOf(ns) = 0 THEN <<>> ELSE SubSeq(ns, 1, Len(ns) - KeepOf(ns))

\* a check that compacts at the limit already
OverLimitInclusive(h) == Usage(h) >= max_token_limit

\* a check that compacts on every call
OverLimitAlways(h) == TRUE

\* current_tokens <= self.max_token_limit is false
OverLimit(h) == Usage(h) > max_token_limit

\* a threshold that summarizes any old message
EnoughToSummarizeAny(old) == Len(old) >= 1

\* len(old_messages) >= 4
EnoughToSummarize(old) == Len(old) >= MinSummarize

\* the run calls _create_summary, hence client.invoke_model
Summarizes(h) == OverLimit(h) /\ EnoughToSummarize(OldMessages(NonSystemMessages(h)))

\* the dict of line 59
SummaryMessage(text) == [role |-> "system", content |-> text, order |-> 0]

\* system_messages + [summary] + recent_messages
SummarizedHistory(system_messages, summary_text, recent_messages) ==
    system_messages \o << SummaryMessage(summary_text) >> \o recent_messages

\* a trim that forgets the system messages
TrimmedHistoryRecentOnly(system_messages, recent_messages) == recent_messages

\* a trim that puts the system messages last
TrimmedHistoryRecentFirst(system_messages, recent_messages) ==
    recent_messages \o system_messages

\* system_messages + recent_messages
TrimmedHistory(system_messages, recent_messages) ==
    system_messages \o recent_messages

\* One run on history h; inv is what invoke_model does if the run calls it.
\* The result is the new self.history with a record of the run.
ManageContextWindow(h, inv) ==
    LET system_messages == SystemMessages(h)
        non_system_messages == NonSystemMessages(h)
        recent_messages == RecentMessages(non_system_messages)
        old_messages == OldMessages(non_system_messages)
        untouched == [before |-> h, triggered |-> FALSE, old |-> <<>>,
                      invoke |-> NotCalled, prompt |-> ""]
    IN  IF ~OverLimit(h)
        THEN [untouched EXCEPT !.before = h] @@ [history |-> h]
        ELSE IF EnoughToSummarize(old_messages)
        THEN LET summary == CreateSummary(old_messages, inv)
             IN  [history |-> SummarizedHistory(system_messages, summary.text, recent_messages),
                  before |-> h, triggered |-> TRUE, old |-> old_messages,
                  invoke |-> inv, prompt |-> summary.prompt]
        ELSE [history |-> TrimmedHistory(system_messages, recent_messages),
              before |-> h, triggered |-> TRUE, old |-> old_messages,
              invoke |-> NotCalled, prompt |-> ""]

\* what invoke_model may do in a run on h: nothing when the run does not call it
InvokeChoices(h) == IF Summarizes(h) THEN InvokeOutcomes ELSE {NotCalled}

(***************************************************************************)
(* Conversation.add_message, as a function of the object's state.          *)
(***************************************************************************)
Message(content, role, ord) == [role |-> role, content |-> content, order |-> ord]

\* an archive capped at the size of a summarized window
ArchiveAppendCapped(fh, message) ==
    IF Len(fh) >= KeepCount + MinSummarize THEN Append(Tail(fh), message)
    ELSE Append(fh, message)

\* an archive that skips system-role messages
ArchiveAppendNoSystem(fh, message) ==
    IF message.role = "system" THEN fh ELSE Append(fh, message)

\* self.full_history.append(message)
ArchiveAppend(fh, message) == Append(fh, message)

AddMessageResult(h, fh, content, role, ord, inv) ==
    LET message == Message(content, role, ord)
        run == ManageContextWindow(Append(h, message), inv)
    IN  [history |-> run.history,
         full_history |-> ArchiveAppend(fh, message),
         run |-> run]

(***************************************************************************)
(* Conversation.send: the outbound message list.                           *)
(***************************************************************************)
\* a loop that does not skip the system-role turns
OutboundMessagesAll(h) ==
    [i \in 1..Len(h) |-> [role |-> h[i].role, text |-> h[i].content]]

\* the loop of lines 104-108: system-role turns are skipped
OutboundMessages(h) ==
    LET ns == NonSystemMessages(h)
    IN  [i \in 1..Len(ns) |-> [role |-> ns[i].role, text |-> ns[i].content]]

InstructionBlock(sp) == "<instructions>\n" \o sp \o "\n</instructions>\n\n"

\* lines 111-118
ApplySystemPrompt(messages, sp) ==
    IF sp # "" /\ messages # <<>> /\ messages[1].role = "user"
    THEN [messages EXCEPT ![1].text = InstructionBlock(sp) \o @]
    ELSE messages

\* a send that appends the (empty) text_response whatever converse did
ReplyAppendedAlways(conv) == TRUE

\* lines 134-144: converse raising ends send before the reply is appended
ReplyAppended(conv) == conv.ok

\* a send that puts self.history back when converse raises
FailedSendRollback(h, appended) == h

\* self.history when converse raises, h being its value when send was called
\* and appended its value after add_message: send has no except or finally
FailedSendHistory(h, appended) == appended

\* what send does for its caller: the error of converse, or the reply's text
SendResult(conv, text_response) ==
    IF conv.ok THEN [raised |-> FALSE, value |-> text_response]
    ELSE [raised |-> TRUE, value |-> conv.error]

NoConverse == [called |-> FALSE, ok |-> FALSE, error |-> ""]

(***************************************************************************)
(* The state after construction, and the operations.                       *)
(***************************************************************************)
Construct(sp, limit) ==
    /\ history = <<>>
    /\ full_history = <<>>
    /\ system_prompt = sp
    /\ max_token_limit = limit
    /\ calls = 0
    /\ passed = <<>>
    /\ op = "__init__"
    /\ result = [raised |-> FALSE, value |-> ""]
    /\ outbound = <<>>
    /\ converse = NoConverse
    /\ runs = <<>>

Init == \E sp \in SystemPrompts, limit \in SendLimits : Construct(sp, limit)

AddInit == \E limit \in AddLimits : Construct("", limit)

AddMessage(content, role) ==
    \E inv \in InvokeChoices(Append(history, Message(content, role, calls + 1))) :
        LET a == AddMessageResult(history, full_history, content, role, calls + 1, inv)
        IN  /\ history' = a.history
            /\ full_history' = a.full_history
            /\ calls' = calls + 1
            /\ passed' = Append(passed, [role |-> role, content |-> content])
            /\ op' = "add_message"
            /\ result' = [raised |-> FALSE, value |-> ""]
            /\ runs' = << a.run >>
            /\ converse' = NoConverse
            /\ UNCHANGED << system_prompt, max_token_limit, outbound >>

Send(message, conv) ==
    \E inv1 \in InvokeChoices(Append(history, Message(message, "user", calls + 1))) :
        LET a1 == AddMessageResult(history, full_history, message, "user", calls + 1, inv1)
            messages == ApplySystemPrompt(OutboundMessages(a1.history), system_prompt)
            text_response == Concat(conv.content)
        IN  /\ outbound' = messages
            /\ op' = "send"
            /\ converse' = [called |-> TRUE, ok |-> conv.ok, error |-> conv.error]
            /\ result' = SendResult(conv, text_response)
            /\ UNCHANGED << system_prompt, max_token_limit >>
            /\ IF ReplyAppended(conv)
               THEN \E inv2 \in InvokeChoices(
                            Append(a1.history, Message(text_response, "assistant", calls + 2))) :
                        LET a2 == AddMessageResult(a1.history, a1.full_history,
                                                   text_response, "assistant", calls + 2, inv2)
                        IN  /\ history' = a2.history
                            /\ full_history' = a2.full_history
                            /\ calls' = calls + 2
                            /\ passed' = passed \o << [role |-> "user", content |-> message],
                                                      [role |-> "assistant", content |-> text_response] >>
                            /\ runs' = << a1.run, a2.run >>
               ELSE /\ history' = FailedSendHistory(history, a1.history)
                    /\ full_history' = a1.full_history
                    /\ calls' = calls + 1
                    /\ passed' = Append(passed, [role |-> "user", content |-> message])
                    /\ runs' = << a1.run >>

\* a clear_history that resets the active history only
ClearHistoryKeepsArchive ==
    /\ history' = <<>>
    /\ passed' = <<>>
    /\ op' = "clear_history"
    /\ result' = [raised |-> FALSE, value |-> ""]
    /\ runs' = <<>>
    /\ converse' = NoConverse
    /\ UNCHANGED << full_history, system_prompt, max_token_limit, calls, outbound >>

ClearHistory ==
    /\ history' = <<>>
    /\ full_history' = <<>>
    /\ passed' = <<>>
    /\ op' = "clear_history"
    /\ result' = [raised |-> FALSE, value |-> ""]
    /\ runs' = <<>>
    /\ converse' = NoConverse
    /\ UNCHANGED << system_prompt, max_token_limit, calls, outbound >>

\* A conversation driven through send and clear_history.
SendStep ==
    /\ calls + 2 <= MaxCalls
    /\ \E message \in UserTexts, conv \in ConverseOutcomes : Send(message, conv)

Next == SendStep \/ ClearHistory

Spec == Init /\ [][Next]_vars

\* A conversation driven through add_message and clear_history.
AddStep ==
    /\ calls < MaxAdds
    /\ \E content \in AddContents, role \in Roles : AddMessage(content, role)

AddNext == AddStep \/ ClearHistory

AddSpec == AddInit /\ [][AddNext]_vars

\* A conversation of user and assistant turns under any max_token_limit the
\* constructor accepts (it checks nothing), 8000 being the default.
BudgetInit == \E limit \in BudgetLimits : Construct("", limit)

TurnStep ==
    /\ calls < MaxTurns
    /\ \E content \in AddContents, role \in ExchangeRoles : AddMessage(content, role)

BudgetNext == TurnStep \/ ClearHistory

BudgetSpec == BudgetInit /\ [][BudgetNext]_vars

(***************************************************************************)
(* Properties.                                                             *)
(***************************************************************************)
\* the turns of h that _create_summary produced
SummaryIndexes(h) == {i \in DOMAIN h : h[i].order = 0}

\* a further compaction pass would leave h as it is
NoFurtherReduction(h) == ManageContextWindow(h, NotCalled).history = h

\* every value self.history took during the last operation
HistoriesOfLastOp ==
    {history} \cup {runs[k].before : k \in DOMAIN runs}
              \cup {runs[k].history : k \in DOMAIN runs}

\* C1: full_history holds exactly the turns passed to add_message since the
\* last clear_history, one per call and in call order; compaction and
\* summarization remove, replace or reorder none of them.
C1_FullHistoryIsCallLog ==
    /\ Len(full_history) = Len(passed)
    /\ \A i \in DOMAIN full_history :
        /\ full_history[i].role = passed[i].role
        /\ full_history[i].content = passed[i].content
        /\ full_history[i].order = calls - Len(passed) + i

\* C1 witness: a summarizing compaction has shrunk history while full_history
\* holds ten or more turns.
C1_Witness ==
    /\ Len(full_history) >= KeepCount + MinSummarize
    /\ Len(history) < Len(full_history)
    /\ SummaryIndexes(history) # {}

\* C2 (as claimed): the active history contains at most one summary turn.
C2_AtMostOneSummary == Cardinality(SummaryIndexes(history)) <= 1

\* C3: a system-role turn of the active history is still in history, with the
\* same content, after every operation other than clear_history.
C3_SystemTurnsPersist ==
    [][op' # "clear_history" =>
        \A i \in DOMAIN history :
            IsSystem(history[i]) => \E j \in DOMAIN history' : history'[j] = history[i]]_vars

\* C3 witness: a compaction has dropped old turns while the system-role turns
\* passed to add_message, alone over max_token_limit, are still in history.
C3_Witness ==
    /\ op = "add_message"
    /\ runs[1].triggered
    /\ runs[1].old # <<>>
    /\ \E i \in DOMAIN history : IsSystem(history[i]) /\ history[i].order > 0
    /\ Usage(SystemMessages(history)) > max_token_limit

\* C4: when invoke_model fails during a compaction's summarization, the
\* summary turn placed in history has exactly the fallback content, and the
\* operation fails only if converse failed, with the error of converse.
C4_FallbackOnSummaryFailure ==
    \A k \in DOMAIN runs :
        (runs[k].invoke.called /\ ~runs[k].invoke.ok) =>
            /\ runs[k].history[Len(SystemMessages(runs[k].before)) + 1]
                    = SummaryMessage(FallbackSummary)
            /\ \E i \in DOMAIN history : history[i] = SummaryMessage(FallbackSummary)
            /\ result.raised =>
                    /\ op = "send"
                    /\ converse.called /\ ~converse.ok
                    /\ result.value = converse.error
                    /\ result.value # runs[k].invoke.error

\* C4 witness: a send whose summarization failed has returned the reply.
C4_Witness ==
    /\ op = "send"
    /\ ~result.raised
    /\ \E k \in DOMAIN runs : runs[k].invoke.called /\ ~runs[k].invoke.ok

C6_CompactionNeverIncreasesUsage ==
    \A k \in DOMAIN runs : Usage(runs[k].history) <= Usage(runs[k].before)

\* C7 (as claimed): with a system_prompt, the first outbound message of every
\* send is the instruction block followed by the original text of that turn,
\* and the later messages carry their turns' text only.
C7_InstructionBlockOnFirstMessage ==
    (op = "send" /\ system_prompt # "") =>
        LET ns == NonSystemMessages(runs[1].history)
        IN  /\ Len(outbound) = Len(ns)
            /\ outbound[1].text = InstructionBlock(system_prompt) \o ns[1].content
            /\ \A i \in 2..Len(outbound) : outbound[i].text = ns[i].content

\* C8: when converse fails inside send, send fails with that error and the
\* last turn of history and of full_history is the user turn of this send.
C8_SendPropagatesTransportError ==
    (op = "send" /\ converse.called /\ ~converse.ok) =>
        /\ result = [raised |-> TRUE, value |-> converse.error]
        /\ Len(runs) = 1
        /\ history = runs[1].history
        /\ history # <<>> /\ full_history # <<>>
        /\ history[Len(history)] = full_history[Len(full_history)]
        /\ full_history[Len(full_history)].role = "user"
        /\ full_history[Len(full_history)].order = calls

\* C8 witness: a send has failed in a conversation that already had turns.
C8_Witness ==
    /\ op = "send"
    /\ converse.called /\ ~converse.ok
    /\ Len(full_history) > 2

\* C9 (as claimed): the content of every turn of the active history, summary
\* turns included, is the content of some turn of full_history.
C9_FullHistorySupersetByContent ==
    \A i \in DOMAIN history :
        \E j \in DOMAIN full_history : full_history[j].content = history[i].content

\* C9 (amended): every turn that add_message put in history is in
\* full_history; summary turns are never appended to full_history.
C9_AddedTurnsArchived ==
    /\ \A h \in HistoriesOfLastOp : \A i \in DOMAIN h :
            h[i].order # 0 => \E j \in DOMAIN full_history : full_history[j] = h[i]
    /\ SummaryIndexes(full_history) = {}

\* C9 witness: history holds a summary turn next to turns of add_message, and
\* the turns it replaced are in full_history only.
C9_Witness ==
    /\ SummaryIndexes(history) # {}
    /\ \E i \in DOMAIN history : history[i].order > 0
    /\ \E j \in DOMAIN full_history :
            \A i \in DOMAIN history : history[i] # full_history[j]

\* C10 (as claimed): any two turns of add_message that are both in history
\* appear there in the order in which they were appended.
C10_HistoryInAppendOrder ==
    \A i, j \in DOMAIN history :
        (i < j /\ history[i].order > 0 /\ history[j].order > 0) =>
            history[i].order < history[j].order

\* C10 (amended): two turns of add_message that are both in history appear in
\* append order unless the earlier-placed one is system-role and the other is
\* not: compaction moves system-role turns ahead of all other turns.
C10_OrderUpToSystemHoisting ==
    \A i, j \in DOMAIN history :
        (i < j /\ history[i].order > 0 /\ history[j].order > 0) =>
            \/ history[i].order < history[j].order
            \/ IsSystem(history[i]) /\ IsNotSystem(history[j])

\* C10 witness: a system-role turn stands before a turn appended earlier.
C10_Witness ==
    \E i, j \in DOMAIN history :
        /\ i < j
        /\ history[i].order > history[j].order
        /\ history[j].order > 0

\* the turns 1..n of h are turns of add_message, untouched and in call order
RawTurns(h, n) ==
    /\ Len(h) = n
    /\ \A i \in 1..n : h[i].order = calls - Len(passed) + i

\* C11 (as claimed): with max_token_limit = 40, the 8th 20-character turn
\* triggers compaction, so history is no longer the 8 raw turns, while
\* full_history holds all 8.
C11_CompactsAtEighthTurn ==
    (max_token_limit = 40 /\ op = "add_message" /\ Len(passed) = 8) =>
        /\ runs[1].triggered
        /\ history # full_history
        /\ Len(full_history) = 8

\* C11 (amended): with max_token_limit = 40, the 8th 20-character turn makes
\* usage 40, which is not over the limit: history and full_history are both
\* the 8 raw turns.  The 9th (usage 45) triggers compaction: history is the
\* last 6 turns and full_history holds all 9.
C11_CompactsAtNinthTurn ==
    (max_token_limit = 40 /\ op = "add_message") =>
        /\ Len(passed) = 8 =>
                /\ Usage(runs[1].before) = 40
                /\ ~runs[1].triggered
                /\ history = full_history
                /\ RawTurns(full_history, 8)
        /\ Len(passed) = 9 =>
                /\ Usage(runs[1].before) = 45
                /\ runs[1].triggered
                /\ history = SubSeq(full_history, 4, 9)
                /\ RawTurns(full_history, 9)

\* C11 witness: the 9th turn has been appended under max_token_limit = 40.
C11_Witness ==
    /\ max_token_limit = 40
    /\ op = "add_message"
    /\ Len(passed) = 9
    /\ Len(history) = KeepCount

\* C12 (as claimed): a Conversation with max_token_limit <= 0 is rejected at
\* construction, so that none ever accepts add_message or send: no operation
\* has run on it and it holds no turn.
C12_InvalidBudgetRejected ==
    max_token_limit <= 0 => (op = "__init__" /\ calls = 0 /\ full_history = <<>>)

\* the text of message m as the first message of a request
FirstMessageText(m) ==
    IF system_prompt = "" THEN m ELSE InstructionBlock(system_prompt) \o m

\* C13: clear_history leaves history and full_history empty and leaves
\* system_prompt and max_token_limit as they were; the send that follows
\* sends exactly its own user message, with the system prompt folded in.
C13_ClearThenSendIsFirstSend ==
    [][/\ op' = "clear_history" =>
            /\ history' = <<>>
            /\ full_history' = <<>>
            /\ system_prompt' = system_prompt
            /\ max_token_limit' = max_token_limit
       /\ (op = "clear_history" /\ op' = "send") =>
            /\ outbound' = << [role |-> "user",
                               text |-> FirstMessageText(passed'[1].content)] >>
            /\ full_history'[1] = Message(passed'[1].content, "user", calls + 1)]_vars

\* C13 witness: the first send after a clear_history of a conversation that
\* had turns has built its request.
C13_Witness ==
    /\ op = "send"
    /\ calls > Len(passed)
    /\ Len(outbound) = 1
    /\ system_prompt # ""

\* the sum of the estimates of the contents of h, turn by turn
TokenSum(h) ==
    LET sum[n \in 0..Len(h)] ==
            IF n = 0 THEN 0 ELSE sum[n - 1] + EstimateTokenCount(h[n].content)
    IN  sum[Len(h)]

\* the usage check of every run compares the sum over the whole history
UsageIsSumOverHistory ==
    \A k \in DOMAIN runs :
        runs[k].triggered <=> TokenSum(runs[k].before) > max_token_limit

\* C14 (as claimed): the estimate of every text is ceil(len(text) / 4), and
\* the usage compared with max_token_limit is the sum of the estimates of the
\* contents of all turns in history.
C14_EstimateIsCeiling ==
    /\ \A h \in HistoriesOfLastOp : \A i \in DOMAIN h :
            LET n == EstimateTokenCount(h[i].content)
            IN  4 * (n - 1) < Len(h[i].content) /\ Len(h[i].content) <= 4 * n
    /\ UsageIsSumOverHistory

\* C14 (amended): the estimate of every text is floor(len(text) / 4), and the
\* usage compared with max_token_limit is the sum of the estimates of the
\* contents of all turns in history.
C14_EstimateIsFloor ==
    /\ \A h \in HistoriesOfLastOp : \A i \in DOMAIN h :
            LET n == EstimateTokenCount(h[i].content)
            IN  4 * n <= Len(h[i].content) /\ Len(h[i].content) < 4 * (n + 1)
    /\ UsageIsSumOverHistory

\* C14 witness: a compaction has triggered on a history that holds a text
\* whose length is no multiple of 4.
C14_Witness ==
    \E k \in DOMAIN runs :
        /\ runs[k].triggered
        /\ \E i \in DOMAIN runs[k].before : Len(runs[k].before[i].content) % 4 # 0

\* the contents a summary turn can have
SummaryContents == {FallbackSummary} \cup {SummaryPrefix \o t : t \in SummaryTexts}

\* C15: when compaction triggers, with others the non-system turns in order,
\* recent the last min(6, len(others)) of them and old the rest: if
\* len(old) >= 4 the new history is the system turns, one summary turn of old
\* and recent; otherwise it is the system turns and recent, and the
\* summarizer is not called.
C15_CompactionShape ==
    \A k \in DOMAIN runs :
        runs[k].triggered =>
            LET after == runs[k].history
                system == SystemMessages(runs[k].before)
                others == NonSystemMessages(runs[k].before)
                keep == IF Len(others) < 6 THEN Len(others) ELSE 6
                nold == Len(others) - keep
                s == Len(system)
            IN  /\ SubSeq(after, 1, s) = system
                /\ IF nold >= 4
                   THEN /\ Len(after) = s + 1 + keep
                        /\ after[s + 1].role = "system"
                        /\ after[s + 1].order = 0
                        /\ after[s + 1].content \in SummaryContents
                        /\ \A i \in 1..keep : after[s + 1 + i] = others[nold + i]
                        /\ runs[k].invoke.called
                        /\ runs[k].prompt = SummaryPrompt(SubSeq(others, 1, nold))
                   ELSE /\ Len(after) = s + keep
                        /\ \A i \in 1..keep : after[s + i] = others[nold + i]
                        /\ ~runs[k].invoke.called

\* C15 witness: a compaction has summarized an old batch and the summarizer
\* returned a text.
C15_Witness ==
    /\ op = "add_message"
    /\ runs[1].triggered
    /\ Len(runs[1].old) >= MinSummarize
    /\ runs[1].invoke.ok

\* C16: when the usage of history with the new turn appended is within
\* max_token_limit, add_message changes history only by appending that turn,
\* and the client is not called.
C16_UnderLimitOnlyAppends ==
    [][op' = "add_message" =>
        LET turn == full_history'[Len(full_history')]
            appended == Append(history, turn)
        IN  TokenSum(appended) <= max_token_limit =>
                /\ history' = appended
                /\ turn.order = calls + 1
                /\ ~runs'[1].invoke.called
                /\ ~converse'.called]_vars

\* C16 witness: an add_message has left more than 6 non-system turns in
\* history, under the limit, next to a system turn.
C16_Witness ==
    /\ op = "add_message"
    /\ ~runs[1].triggered
    /\ Len(NonSystemMessages(history)) > KeepCount
    /\ SystemMessages(history) # <<>>

\* the turns of h that add_message appended
AddedTurns(h) == SelectSeq(h, LAMBDA m : m.order > 0)

\* the user message passed to the last send
SentMessage ==
    IF converse.ok THEN passed[Len(passed) - 1].content ELSE passed[Len(passed)].content

\* C17: the outbound list of a send holds one message per turn of
\* add_message still in history, in order, and no summary turn: no message
\* carries the text of a summary.
C17_NoSummaryInRequest ==
    op = "send" =>
        LET h == runs[1].history
            added == AddedTurns(h)
        IN  /\ Len(outbound) = Len(added)
            /\ \A i \in DOMAIN outbound :
                    /\ outbound[i].role = added[i].role
                    /\ outbound[i].text \in
                            {added[i].content, InstructionBlock(system_prompt) \o added[i].content}
                    /\ \A j \in SummaryIndexes(h) :
                            /\ outbound[i].text # h[j].content
                            /\ outbound[i].text # InstructionBlock(system_prompt) \o h[j].content

\* C17 witness: a send has built its request from a history that holds a
\* summary turn.
C17_Witness ==
    /\ op = "send"
    /\ SummaryIndexes(runs[1].history) # {}
    /\ Len(outbound) >= KeepCount

\* C18: the outbound list of every send is non-empty and its last message is
\* the user message just passed to send, its text unmodified unless it is
\* also the first message.
C18_RequestEndsWithSentMessage ==
    op = "send" =>
        /\ outbound # <<>>
        /\ outbound[Len(outbound)].role = "user"
        /\ outbound[Len(outbound)].text =
                IF Len(outbound) = 1 THEN FirstMessageText(SentMessage) ELSE SentMessage

\* C18 witness: the add_message of a send has dropped old turns and the
\* request holds several messages.
C18_Witness ==
    /\ op = "send"
    /\ runs[1].triggered
    /\ runs[1].old # <<>>
    /\ Len(outbound) > 1

\* C19: when converse fails, history stays as the send's add_message left it
\* (compaction included) and ends, like full_history, with the user turn of
\* that send; the outbound list of the next send ends with that user message
\* followed by the new one.
C19_FailedSendNotRolledBack ==
    [][/\ (op' = "send" /\ ~converse'.ok) =>
            /\ history' = runs'[1].history
            /\ history'[Len(history')] = Message(SentMessage', "user", calls + 1)
            /\ full_history' = Append(full_history, Message(SentMessage', "user", calls + 1))
       /\ (op = "send" /\ ~converse.ok /\ op' = "send") =>
            LET n == Len(outbound')
            IN  /\ n >= 2
                /\ outbound'[n].role = "user"
                /\ outbound'[n - 1].role = "user"
                /\ outbound'[n - 1].text \in {SentMessage, FirstMessageText(SentMessage)}
                /\ runs'[1].history[Len(runs'[1].history) - 1] = history[Len(history)]]_vars

\* C19 witness: the request of a send ends with two user messages after
\* earlier exchanges.
C19_Witness ==
    /\ op = "send"
    /\ Len(outbound) >= 3
    /\ outbound[Len(outbound)].role = "user"
    /\ outbound[Len(outbound) - 1].role = "user"

====
